---- MODULE Spec2Model ----
(***************************************************************************)
(* Life360 device tracker platform: the membership synchronizer            *)
(* (async_setup_entry.process_data) and the tracker entity adapter         *)
(* (Life360DeviceTracker), modelled from device_tracker.py.                *)
(*                                                                         *)
(* Python values are encoded as integers: None is -1, False is 0, True is  *)
(* 1, strings (names, picture URLs, addresses) are small positive numbers. *)
(* A dict is a function whose DOMAIN is the set of keys it holds, so that  *)
(* d[k] on a missing key is a KeyError and d.get(k) is None.               *)
(***************************************************************************)
EXTENDS Integers, Sequences, FiniteSets, TLC

VARIABLES
    data,              \* coordinator.data of each account: [circles, members]
    last_update_success, \* coordinator.last_update_success of each account
    options,           \* coordinator.config_entry.options of each account
    listening,         \* accounts whose setup ran (process_data is a listener)
    tracked_members,   \* hass.data[DOMAIN]["tracked_members"], a list
    included_circles_members, \* per setup call: the closure's set
    logged_circles,    \* per setup call: the closure's list
    logged_places,     \* per setup call: the closure's list
    logged_members,    \* per setup call: the closure's list
    entities,          \* the entities handed to the host and not torn down
    log,               \* LOGGER lines of the last callback round
    last               \* what the last callback round was and what it did

vars == <<data, last_update_success, options, listening, tracked_members,
          included_circles_members, logged_circles, logged_places,
          logged_members, entities, log, last>>

-----------------------------------------------------------------------------
(* Bounds of the model *)

NumEntries == 2
NumMembers == 2
NumCircles == 1
NumPlaces == 1

Entries == 1..NumEntries
Members == 1..NumMembers
Circles == 1..NumCircles
Places == 1..NumPlaces

-----------------------------------------------------------------------------
(* Python values *)

None == -1
False == 0
True == 1

PyBool(b) == IF b THEN True ELSE False

\* self._data when .get() found no slice for the member
NoData == [absent |-> None]

\* The keys of a member record that extra_state_attributes copies.
_EXTRA_ATTRIBUTES ==
    {"address", "at_loc_since", "battery_charging", "driving",
     "last_seen", "place", "speed", "wifi_on"}

\* Results of evaluating a property: the value, or the exception raised.
Value(v) == [exc |-> "none", val |-> v]
Raise(x) == [exc |-> x, val |-> None]

-----------------------------------------------------------------------------
(* Member records and snapshots the coordinator can supply *)

Range(f) == {f[x] : x \in DOMAIN f}

\* The dict d without key k (a record the coordinator supplied malformed).
Drop(d, k) == [x \in (DOMAIN d) \ {k} |-> d[x]]

\* The member record of the spec's example, completed.
BaseSlice ==
    [name |-> 1, entity_picture |-> 1, battery_level |-> 80,
     gps_accuracy |-> 10, latitude |-> 1, longitude |-> 2,
     address |-> 1, at_loc_since |-> 1, battery_charging |-> False,
     driving |-> False, last_seen |-> 1, place |-> None, speed |-> 0,
     wifi_on |-> True]

\* Records of the synchronizer runs: a well-formed one, one without a
\* name, one without an entity picture.
SyncSlices ==
    {BaseSlice, Drop(BaseSlice, "name"), Drop(BaseSlice, "entity_picture")}

\* Accuracy-gate runs: records differing in accuracy, position, picture
\* and name.
GateSlices ==
    {[BaseSlice EXCEPT !.gps_accuracy = a, !.latitude = la,
                       !.longitude = lo, !.entity_picture = p,
                       !.name = n] :
        a \in {10, 50, 100}, la \in {1, 2}, lo \in {2, 3}, p \in {1, 2},
        n \in {1, 2}}

\* Attribute runs: records differing in the extra attributes.
AttrSlices ==
    {[BaseSlice EXCEPT !.driving = d, !.speed = s, !.address = ad] :
        d \in {None, False, True}, s \in {None, 10, 20, 30},
        ad \in {None, 1}}

\* The values CONF_MAX_GPS_ACCURACY and CONF_DRIVING_SPEED are given in
\* the runs; None is the option left unset.
MaxGpsAccuracyOptions == {None, 50}
DrivingSpeedOptions == {None, 20}

NoOptions == [max_gps_accuracy |-> None, driving_speed |-> None]
GateOptions ==
    {[max_gps_accuracy |-> t, driving_speed |-> None] :
        t \in MaxGpsAccuracyOptions}
AttrOptions ==
    {[max_gps_accuracy |-> None, driving_speed |-> d] :
        d \in DrivingSpeedOptions}

\* Dicts keyed by a subset of keys, with values in vals.
Dicts(keys, vals) == UNION {[S -> vals] : S \in SUBSET keys}

\* coordinator.data: circles keyed by circle id, each with its member list
\* and its places; members keyed by member id.
Snapshots(cs, ms, slices) ==
    [circles : Dicts(cs, [members : SUBSET ms, places : SUBSET Places]),
     members : Dicts(ms, slices)]

-----------------------------------------------------------------------------
(* Life360DeviceTracker: properties *)

\* d[k] in Python, for d a member record or None.
Subscript(d, k) ==
    IF d = NoData THEN Raise("TypeError")
    ELSE IF k \notin DOMAIN d THEN Raise("KeyError")
    ELSE Value(d[k])

\* available without the guard on the slice.
available_host_only(ent) == last_update_success[ent.entry]

\* available without super().available.
available_slice_only(ent) == ent._data # NoData

available(ent) == last_update_success[ent.entry] /\ ent._data # NoData

battery_level(ent) == Subscript(ent._data, "battery_level")

location_accuracy(ent) == Subscript(ent._data, "gps_accuracy")

latitude(ent) == Subscript(ent._data, "latitude")

longitude(ent) == Subscript(ent._data, "longitude")

\* The getter storing the slice's picture whenever there is a slice.
entity_picture_get_unguarded(ent) ==
    IF ent._data # NoData /\ "entity_picture" \in DOMAIN ent._data
    THEN [ent EXCEPT !._attr_entity_picture = ent._data["entity_picture"]]
    ELSE ent

\* The entity after the entity_picture getter ran: the getter stores the
\* slice's picture in _attr_entity_picture while the entity is available.
entity_picture_get(ent) ==
    IF available(ent) /\ "entity_picture" \in DOMAIN ent._data
    THEN [ent EXCEPT !._attr_entity_picture = ent._data["entity_picture"]]
    ELSE ent

\* What the entity_picture getter returns.
entity_picture(ent) ==
    IF available(ent) /\ "entity_picture" \notin DOMAIN ent._data
    THEN Raise("KeyError")
    ELSE Value(entity_picture_get(ent)._attr_entity_picture)

\* The comparison with >= for >.
SpeedExceeds_ge(speed, driving_speed) == speed >= driving_speed

\* attrs[ATTR_SPEED] > driving_speed
SpeedExceeds(speed, driving_speed) == speed > driving_speed

\* Python's (a or b) for a an encoded value.
PyOr(a, b) == IF a \notin {None, False} THEN a ELSE b

extra_state_attributes(ent) ==
    IF ent._data = NoData THEN Raise("AttributeError")
    ELSE
      LET d == ent._data
          attrs == [k \in {x \in DOMAIN d :
                             x \in _EXTRA_ATTRIBUTES /\ d[x] # None} |-> d[k]]
          driving_speed == options[ent.entry].driving_speed
      IN  IF driving_speed = None THEN Value(attrs)
          ELSE IF "driving" \notin DOMAIN attrs THEN Raise("KeyError")
          ELSE IF attrs["driving"] \notin {None, False} THEN Value(attrs)
          ELSE IF "speed" \notin DOMAIN attrs THEN Raise("KeyError")
          ELSE Value([attrs EXCEPT !["driving"] =
                        PyOr(attrs["driving"],
                             PyBool(SpeedExceeds(attrs["speed"],
                                                 driving_speed)))])

-----------------------------------------------------------------------------
(* Life360DeviceTracker: construction, update, teardown *)

\* __init__: the slice is read with [], so are its name and picture. The
\* caller passes an id that is a key of members. removing is the host's
\* mark of an entity whose async_will_remove_from_hass has started and not
\* returned.
Life360DeviceTracker(e, member_id, members) ==
    [unique_id |-> member_id,
     entry |-> e,
     _data |-> members[member_id],
     _attr_name |-> members[member_id]["name"],
     _attr_entity_picture |-> members[member_id]["entity_picture"],
     update |-> "written",
     removing |-> FALSE]

\* Whether __init__ raises KeyError on this record.
InitRaises(member) ==
    "name" \notin DOMAIN member \/ "entity_picture" \notin DOMAIN member

\* members.get(member_id)
Get(members, member_id) ==
    IF member_id \in DOMAIN members THEN members[member_id] ELSE NoData

\* The gate's comparison with >= for >.
AccuracyExceeds_ge(acc, max_gps_acc) == acc >= max_gps_acc

\* self.location_accuracy > max_gps_acc
AccuracyExceeds(acc, max_gps_acc) == acc > max_gps_acc

\* _handle_coordinator_update: the entity after the handler ran on the
\* snapshot's members. update records how the handler ended: "written"
\* (super()._handle_coordinator_update() wrote the state), "skipped" (the
\* accuracy gate returned early) or the exception it raised.
_handle_coordinator_update(ent, members) ==
    LET ent1 == [ent EXCEPT !._data = Get(members, ent.unique_id)]
        max_gps_acc == options[ent.entry].max_gps_accuracy
        acc == location_accuracy(ent1)
    IN  IF max_gps_acc = None THEN [ent1 EXCEPT !.update = "written"]
        ELSE IF acc.exc # "none" THEN [ent1 EXCEPT !.update = acc.exc]
        ELSE IF AccuracyExceeds(acc.val, max_gps_acc)
             THEN [ent1 EXCEPT !.update = "skipped"]
        ELSE [ent1 EXCEPT !.update = "written"]

\* The LOGGER.warning of the accuracy gate, when the handler emits it.
GateWarning(ent) ==
    IF ent.update = "skipped"
    THEN <<[kind |-> "warning", id |-> ent.unique_id, incl |-> False]>>
    ELSE <<>>

\* A remove that leaves the list as it is.
ListRemove_keep(l, x) == l

\* list.remove(x): the list without the first occurrence of x.
RECURSIVE ListRemove(_, _)
ListRemove(l, x) ==
    IF l = <<>> THEN <<>>
    ELSE IF Head(l) = x THEN Tail(l)
    ELSE <<Head(l)>> \o ListRemove(Tail(l), x)

\* The sequence s without its i-th element.
RemoveAt(s, i) == SubSeq(s, 1, i - 1) \o SubSeq(s, i + 1, Len(s))

-----------------------------------------------------------------------------
(* async_setup_entry.process_data *)

\* Always True in this version of the integration.
_include_name(name) == TRUE

\* first_seen without the look-up in the logged list.
first_seen_always(id, logged) == TRUE

\* The membership test looking at the most recently logged id only.
first_seen_last(id, logged) == logged = <<>> \/ logged[Len(logged)] # id

\* "id not in logged_...": the id was not logged by this setup yet.
first_seen(id, logged) == id \notin Range(logged)

\* The places of one circle not logged yet, in key order, each marked
\* logged; p is the next place id.
RECURSIVE PlaceLoop(_, _, _)
PlaceLoop(places, p, acc) ==
    IF p > NumPlaces THEN acc
    ELSE IF p \notin places \/ ~first_seen(p, acc.logged_places)
         THEN PlaceLoop(places, p + 1, acc)
    ELSE PlaceLoop(places, p + 1,
           [acc EXCEPT !.logged_places = Append(@, p),
                       !.new_places = Append(@, p)])

\* The loop over the snapshot's circles; c is the next circle id.
RECURSIVE CircleLoop(_, _, _)
CircleLoop(circles, c, acc) ==
    IF c > NumCircles THEN acc
    ELSE IF c \notin DOMAIN circles THEN CircleLoop(circles, c + 1, acc)
    ELSE
      LET incl_circle == _include_name(c)
          first == first_seen(c, acc.logged_circles)
          acc1 == IF first
                  THEN [acc EXCEPT
                          !.logged_circles = Append(@, c),
                          !.log = Append(@, [kind |-> "circle", id |-> c,
                                             incl |-> PyBool(incl_circle)])]
                  ELSE acc
          pl == PlaceLoop(circles[c].places, 1,
                          [logged_places |-> acc1.logged_places,
                           new_places |-> <<>>])
          acc2 == [acc1 EXCEPT
                     !.included = @ \cup circles[c].members,
                     !.logged_places = pl.logged_places,
                     !.log = IF pl.new_places # <<>>
                             THEN Append(@, [kind |-> "places", id |-> c,
                                             incl |-> True])
                             ELSE @]
      IN  IF ~incl_circle THEN CircleLoop(circles, c + 1, acc1)
          ELSE CircleLoop(circles, c + 1, acc2)

\* incl_member without the registry check.
incl_member_untracked(member_id, included, tracked, member_name) ==
    /\ member_id \in included
    /\ _include_name(member_name)

\* incl_member with the registry check inverted.
incl_member_inverted(member_id, included, tracked, member_name) ==
    /\ member_id \in included
    /\ member_id \in Range(tracked)
    /\ _include_name(member_name)

\* Whether a member of the snapshot becomes a new entity.
incl_member(member_id, included, tracked, member_name) ==
    /\ member_id \in included
    /\ member_id \notin Range(tracked)
    /\ _include_name(member_name)

\* The loop over the snapshot's members, in key order; m is the next member
\* id. It stops with exc set where the code raises.
RECURSIVE MemberLoop(_, _, _, _)
MemberLoop(e, members, m, acc) ==
    IF m > NumMembers THEN acc
    ELSE IF m \notin DOMAIN members THEN MemberLoop(e, members, m + 1, acc)
    ELSE IF "name" \notin DOMAIN members[m]
         THEN [acc EXCEPT !.exc = "KeyError"]
    ELSE
      LET incl == incl_member(m, acc.included, acc.tracked_members,
                              members[m]["name"])
          acc1 == IF first_seen(m, acc.logged_members)
                  THEN [acc EXCEPT
                          !.logged_members = Append(@, m),
                          !.log = Append(@, [kind |-> "member", id |-> m,
                                             incl |-> PyBool(incl)])]
                  ELSE acc
          acc2 == [acc1 EXCEPT !.tracked_members = Append(@, m)]
      IN  IF ~incl THEN MemberLoop(e, members, m + 1, acc1)
          ELSE IF InitRaises(members[m])
               THEN [acc2 EXCEPT !.exc = "KeyError"]
          ELSE MemberLoop(e, members, m + 1,
                 [acc2 EXCEPT !.new_entities =
                    Append(@, Life360DeviceTracker(e, m, members))])

\* One call of process_data of entry e on snapshot snap: the closure's
\* variables and the registry after it, the lines logged, the entities
\* built, and the exception that ended it ("none": it reached
\* async_add_entities).
process_data(e, snap) ==
    MemberLoop(e, snap.members, 1,
      CircleLoop(snap.circles, 1,
        [included |-> included_circles_members[e],
         logged_circles |-> logged_circles[e],
         logged_places |-> logged_places[e],
         logged_members |-> logged_members[e],
         tracked_members |-> tracked_members,
         new_entities |-> <<>>,
         log |-> <<>>,
         exc |-> "none"]))

\* A registration call that hands over the first new entity only.
Added_first(r) ==
    IF r.exc = "none" /\ r.new_entities # <<>>
    THEN <<Head(r.new_entities)>> ELSE <<>>

\* The entities async_add_entities received.
Added(r) == IF r.exc = "none" THEN r.new_entities ELSE <<>>

-----------------------------------------------------------------------------
(* The callbacks the host's event loop runs, one at a time *)

EmptyDict == [x \in {} |-> None]

\* Before the first fetch the coordinator holds no circles and no members.
EmptySnapshot == [circles |-> EmptyDict, members |-> EmptyDict]

\* The state before any config entry is set up; opts are the option
\* mappings the entries can have.
InitWith(opts) ==
    /\ data = [e \in Entries |-> EmptySnapshot]
    /\ last_update_success = [e \in Entries |-> TRUE]
    /\ options \in [Entries -> opts]
    /\ listening = {}
    /\ tracked_members = <<>>
    /\ included_circles_members = [e \in Entries |-> {}]
    /\ logged_circles = [e \in Entries |-> <<>>]
    /\ logged_places = [e \in Entries |-> <<>>]
    /\ logged_members = [e \in Entries |-> <<>>]
    /\ entities = <<>>
    /\ log = <<>>
    /\ last = [op |-> "init", entry |-> 0, created |-> <<>>,
               removed |-> None, exc |-> "none", repeat |-> FALSE,
               recreated |-> FALSE]

\* The entities of entry e after their update handlers ran; the other
\* entries' entities listen to other coordinators.
UpdateEntities(e, members) ==
    [i \in DOMAIN entities |->
        IF entities[i].entry = e
        THEN _handle_coordinator_update(entities[i], members)
        ELSE entities[i]]

RECURSIVE Warnings(_)
Warnings(ents) ==
    IF ents = <<>> THEN <<>>
    ELSE GateWarning(Head(ents)) \o Warnings(Tail(ents))

\* The effect of process_data of entry e run on snap, with ents the
\* entities already on the platform. A setup call whose first pass raises
\* is over (line 131 is not reached): its closure is gone, and the next
\* setup call of the entry starts with a fresh one.
Synchronize(e, snap, ents, op) ==
    \E r \in {process_data(e, snap)} :
      \E closure \in {IF op = "setup" /\ r.exc # "none"
                       THEN [r EXCEPT !.included = {},
                                      !.logged_circles = <<>>,
                                      !.logged_places = <<>>,
                                      !.logged_members = <<>>]
                       ELSE r} :
        /\ tracked_members' = r.tracked_members
        /\ included_circles_members' =
             [included_circles_members EXCEPT ![e] = closure.included]
        /\ logged_circles' =
             [logged_circles EXCEPT ![e] = closure.logged_circles]
        /\ logged_places' =
             [logged_places EXCEPT ![e] = closure.logged_places]
        /\ logged_members' =
             [logged_members EXCEPT ![e] = closure.logged_members]
        /\ listening' = IF op = "setup" /\ r.exc = "none"
                        THEN listening \cup {e} ELSE listening
        /\ entities' = ents \o Added(r)
        /\ log' = r.log \o Warnings(SelectSeq(ents, LAMBDA x : x.entry = e))
        /\ last' = [op |-> op, entry |-> e,
                    created |-> [i \in DOMAIN Added(r) |->
                                   Added(r)[i].unique_id],
                    removed |-> None,
                    exc |-> r.exc,
                    repeat |-> /\ last.op \in {"setup", "refresh"}
                               /\ last.entry = e
                               /\ snap = data[e],
                    recreated |->
                        /\ last.op = "teardown"
                        /\ \E i \in DOMAIN Added(r) :
                              Added(r)[i].unique_id = last.removed]

\* async_setup_entry of entry e, after the coordinator's first fetch
\* returned snap: process_data runs once and, if it returned, becomes a
\* listener.
Setup(e, snaps) ==
    /\ e \notin listening
    /\ \E snap \in snaps :
         /\ data' = [data EXCEPT ![e] = snap]
         /\ Synchronize(e, snap, entities, "setup")
    /\ UNCHANGED <<last_update_success, options>>

\* The coordinator of entry e fetched snap and notifies its listeners:
\* process_data, then the update handler of each entity of the entry.
RefreshSuccess(e, snaps) ==
    /\ e \in listening
    /\ \E snap \in snaps :
         /\ data' = [data EXCEPT ![e] = snap]
         /\ Synchronize(e, snap, UpdateEntities(e, snap.members), "refresh")
    /\ last_update_success' = [last_update_success EXCEPT ![e] = TRUE]
    /\ UNCHANGED options

\* The coordinator's fetch failed: data stays, last_update_success drops,
\* the listeners are notified all the same.
RefreshFailure(e) ==
    /\ e \in listening
    /\ Synchronize(e, data[e], UpdateEntities(e, data[e].members), "refresh")
    /\ last_update_success' = [last_update_success EXCEPT ![e] = FALSE]
    /\ UNCHANGED <<data, options>>

\* An awaited super().async_will_remove_from_hass() that yields to the
\* event loop.
SuperWillRemoveSuspends_yes == TRUE

\* Whether awaiting super().async_will_remove_from_hass() yields to the
\* event loop before it returns: the host's base method does nothing, and
\* no entry point suspends.
SuperWillRemoveSuspends == FALSE

\* async_will_remove_from_hass of the i-th entity: the handler awaits the
\* base method, then removes the id from the registry, and the host drops
\* the entity. Were the awaited call to yield, the handler would stop there
\* and finish in a later step.
Teardown(i) ==
    /\ i \in DOMAIN entities
    /\ IF SuperWillRemoveSuspends /\ ~entities[i].removing
       THEN /\ entities' = [entities EXCEPT ![i].removing = TRUE]
            /\ last' = [op |-> "removing", entry |-> entities[i].entry,
                        created |-> <<>>, removed |-> None, exc |-> "none",
                        repeat |-> FALSE, recreated |-> FALSE]
            /\ UNCHANGED tracked_members
       ELSE /\ tracked_members' =
                 ListRemove(tracked_members, entities[i].unique_id)
            /\ entities' = RemoveAt(entities, i)
            /\ last' = [op |-> "teardown", entry |-> entities[i].entry,
                        created |-> <<>>,
                        removed |-> entities[i].unique_id,
                        exc |-> IF entities[i].unique_id
                                     \in Range(tracked_members)
                                THEN "none" ELSE "ValueError",
                        repeat |-> FALSE, recreated |-> FALSE]
    /\ log' = <<>>
    /\ UNCHANGED <<data, last_update_success, options, listening,
                   included_circles_members, logged_circles, logged_places,
                   logged_members>>

\* The host reads entity_picture of the i-th entity.
ReadEntityPicture(i) ==
    /\ i \in DOMAIN entities
    /\ entity_picture(entities[i]).exc = "none"
    /\ entities' = [entities EXCEPT ![i] = entity_picture_get(@)]
    /\ UNCHANGED <<data, last_update_success, options, listening,
                   tracked_members, included_circles_members, logged_circles,
                   logged_places, logged_members, log, last>>

-----------------------------------------------------------------------------
(* Specifications *)

Init == InitWith({NoOptions})

\* One config entry: circles with their places, members with well-formed
\* records or missing from the mapping; no option set.
SyncSnapshots == Snapshots(Circles, Members, {BaseSlice})

NextSync ==
    \/ Setup(1, SyncSnapshots)
    \/ RefreshSuccess(1, SyncSnapshots)
    \/ RefreshFailure(1)
    \/ \E i \in DOMAIN entities : Teardown(i)

SpecSync == Init /\ [][NextSync]_vars

\* One config entry whose coordinator also supplies malformed member
\* records: circles without places, records well-formed, without a name
\* or without an entity picture.
MalformedSnapshots ==
    [circles : Dicts(Circles, [members : SUBSET Members, places : {{}}]),
     members : Dicts(Members, SyncSlices)]

NextMalformed ==
    \/ Setup(1, MalformedSnapshots)
    \/ RefreshSuccess(1, MalformedSnapshots)
    \/ \E i \in DOMAIN entities : Teardown(i)

SpecMalformed == Init /\ [][NextMalformed]_vars

\* Several config entries sharing tracked_members; their snapshots are
\* consistent (the members mapping holds exactly the members the circles
\* list), with well-formed records and circles without places.
SharedSnapshots ==
    {[circles |-> cs,
      members |-> [m \in UNION {cs[c].members : c \in DOMAIN cs} |->
                     BaseSlice]] :
        cs \in Dicts(Circles, [members : SUBSET Members, places : {{}}])}

NextShared ==
    \/ \E e \in Entries : Setup(e, SharedSnapshots)
    \/ \E e \in Entries : RefreshSuccess(e, SharedSnapshots)
    \/ \E e \in Entries : RefreshFailure(e)
    \/ \E i \in DOMAIN entities : Teardown(i)

SpecShared == Init /\ [][NextShared]_vars

\* A coordinator with a listener keeps polling: while process_data of an
\* entry is subscribed, a round of its callbacks eventually runs.
NextFair ==
    \/ \E e \in Entries : Setup(e, SharedSnapshots)
    \/ \E e \in Entries : RefreshSuccess(e, SharedSnapshots)
    \/ \E i \in DOMAIN entities : Teardown(i)

SpecFair ==
    /\ Init
    /\ [][NextFair]_vars
    /\ \A e \in Entries : WF_vars(RefreshSuccess(e, SharedSnapshots))

\* One entity: member 1 of entry 1, always listed by circle 1.
OneCircle == [c \in {1} |-> [members |-> {1}, places |-> {}]]

\* The member's record varies in accuracy, position and picture, or is
\* missing; the accuracy threshold is set or unset.
GateSnapshots == [circles : {OneCircle}, members : Dicts({1}, GateSlices)]

InitGate == InitWith(GateOptions)

NextGate ==
    \/ Setup(1, GateSnapshots)
    \/ RefreshSuccess(1, GateSnapshots)
    \/ RefreshFailure(1)
    \/ \E i \in DOMAIN entities : Teardown(i)
    \/ \E i \in DOMAIN entities : ReadEntityPicture(i)

SpecGate == InitGate /\ [][NextGate]_vars

\* The member's record varies in the extra attributes, or is missing; the
\* driving-speed threshold is set or unset.
AttrSnapshots == [circles : {OneCircle}, members : Dicts({1}, AttrSlices)]

InitAttrs == InitWith(AttrOptions)

NextAttrs ==
    \/ Setup(1, AttrSnapshots)
    \/ RefreshSuccess(1, AttrSnapshots)
    \/ RefreshFailure(1)
    \/ \E i \in DOMAIN entities : Teardown(i)

SpecAttrs == InitAttrs /\ [][NextAttrs]_vars

-----------------------------------------------------------------------------
(* Properties *)

\* How many times x occurs in the list l.
Count(l, x) == Cardinality({i \in DOMAIN l : l[i] = x})

\* The live entities of member m.
EntitiesOf(m) == {i \in DOMAIN entities : entities[i].unique_id = m}

\* The member ids the circles of a snapshot list.
Listed(snap) == UNION {snap.circles[c].members : c \in DOMAIN snap.circles}

\* The snapshot lists m in a circle and holds a record for m.
Tracks(snap, m) == m \in Listed(snap) /\ m \in DOMAIN snap.members

\* A call of process_data: at setup or on a coordinator notification.
IsPass(op) == op \in {"setup", "refresh"}

\* C1: in every reachable state of several config entries sharing the
\* registry, each member id has at most one live entity and occurs at most
\* once in tracked_members.
C1_AtMostOneEntity ==
    \A m \in Members :
        /\ Cardinality(EntitiesOf(m)) <= 1
        /\ Count(tracked_members, m) <= 1

\* A pass of entry 2 ran on a snapshot that lists a member whose entity
\* belongs to entry 1.
C1_Witness ==
    /\ last.op = "refresh"
    /\ last.entry = 2
    /\ \E i \in DOMAIN entities :
         /\ entities[i].entry = 1
         /\ entities[i].unique_id \in Listed(data[2])
         /\ entities[i].unique_id \in DOMAIN data[2].members

\* C2: a pass creates no entity for a member id that no circle of the
\* snapshot it reads lists.
C2_NoEntityOutsideCircles ==
    IsPass(last.op) =>
        \A k \in DOMAIN last.created :
            last.created[k] \in Listed(data[last.entry])

C4_GateKeepsPosition ==
    [][\A i \in DOMAIN entities :
         (/\ last'.op = "refresh"
          /\ entities[i].entry = last'.entry
          /\ entities[i]._data # NoData
          /\ i \in DOMAIN entities'
          /\ entities'[i].update = "skipped")
         => /\ latitude(entities'[i]) = latitude(entities[i])
            /\ longitude(entities'[i]) = longitude(entities[i])
            /\ location_accuracy(entities'[i]) =
                 location_accuracy(entities[i])]_vars

\* C5: after a refresh that omits the entity's member, the handler has
\* not raised and the entity is unavailable, whatever the options.
C5_MissingMemberUnavailable ==
    \A i \in DOMAIN entities :
        (/\ last.op = "refresh"
         /\ entities[i].entry = last.entry
         /\ entities[i].unique_id \notin DOMAIN data[last.entry].members)
        => /\ entities[i].update \in {"written", "skipped"}
           /\ ~available(entities[i])

\* C6: the pass that follows the teardown of m's entity, run by a setup
\* whose snapshot lists m in a circle and holds a record for m, creates an
\* entity for m; and with coordinators that keep polling, a torn-down
\* member that a listening entry's snapshot lists with a record has an
\* entity again, unless the snapshots stop listing it.
C6_TeardownReleasesSlot ==
    /\ [][\A m \in Members :
            (/\ last.op = "teardown"
             /\ last.removed = m
             /\ IsPass(last'.op)
             /\ Tracks(data'[last'.entry], m))
            => /\ Count(last'.created, m) = 1
               /\ EntitiesOf(m)' # {}]_vars
    /\ \A m \in Members :
         (/\ last.op = "teardown"
          /\ last.removed = m
          /\ \E e \in listening : Tracks(data[e], m))
         ~> (\/ EntitiesOf(m) # {}
             \/ ~ \E e \in listening : Tracks(data[e], m))

\* The pass right after a teardown created an entity for the torn-down id.
C6_Witness ==
    /\ last.recreated
    /\ \E i \in DOMAIN entities : entities[i].unique_id \in Range(last.created)

\* The first-seen lines of the synchronizer in a log.
FirstSeenLines(l) ==
    SelectSeq(l, LAMBDA x : x.kind \in {"circle", "places", "member"})

\* C7: process_data run again on an unchanged snapshot, right after a run
\* of the same setup, creates no entity, leaves the registry as it is and
\* logs no circle, place or member line.
C7_Idempotent ==
    [][(/\ IsPass(last.op)
        /\ last'.op = "refresh"
        /\ last'.entry = last.entry
        /\ data' = data)
       => /\ last'.created = <<>>
          /\ Len(entities') = Len(entities)
          /\ tracked_members' = tracked_members
          /\ FirstSeenLines(log') = <<>>]_vars

\* A second run on the same snapshot happened with entities tracked and a
\* place logged.
C7_Witness ==
    /\ last.repeat
    /\ entities # <<>>
    /\ logged_places[last.entry] # <<>>

\* C8: with stored driving False and speed S, the exposed driving is
\* (S > D) when a driving-speed threshold D is set and the stored value
\* when none is set; with stored driving True it is True for every S and D.
C8_DrivingDerivation ==
    \A i \in DOMAIN entities :
        LET d == entities[i]._data
            D == options[entities[i].entry].driving_speed
            r == extra_state_attributes(entities[i])
        IN  d # NoData =>
              /\ (d["driving"] = False /\ d["speed"] # None) =>
                   /\ r.exc = "none"
                   /\ r.val["driving"] =
                        IF D = None THEN False
                        ELSE IF d["speed"] > D THEN True ELSE False
              /\ d["driving"] = True =>
                   /\ r.exc = "none"
                   /\ r.val["driving"] = True

\* An entity whose slice stores driving False at a speed above the
\* threshold: the exposed driving is True.
C8_Witness ==
    \E i \in DOMAIN entities :
        /\ entities[i]._data # NoData
        /\ entities[i]._data["driving"] = False
        /\ entities[i]._data["speed"] = 30
        /\ options[entities[i].entry].driving_speed = 20
        /\ extra_state_attributes(entities[i]).val["driving"] = True

C10_GateKeepsAvailability ==
    [][\A i \in DOMAIN entities :
         (/\ last'.op = "refresh"
          /\ entities[i].entry = last'.entry
          /\ i \in DOMAIN entities'
          /\ entities'[i].update = "skipped"
          /\ last_update_success' = last_update_success)
         => (available(entities[i])' <=> available(entities[i]))]_vars

\* C11: in every reachable state an entity is available exactly when its
\* coordinator's last fetch succeeded and the coordinator's current members
\* mapping holds a record for the entity's id (the slice the update handler
\* last resolved is then non-absent).
C11_AvailableIffHostAndSlice ==
    \A i \in DOMAIN entities :
        /\ entities[i]._data =
             Get(data[entities[i].entry].members, entities[i].unique_id)
        /\ available(entities[i]) <=>
             /\ last_update_success[entities[i].entry]
             /\ entities[i].unique_id
                  \in DOMAIN data[entities[i].entry].members

\* An entity whose record is present while the coordinator's last fetch
\* failed: unavailable on the host's account alone.
C11_Witness ==
    \E i \in DOMAIN entities :
        /\ entities[i]._data # NoData
        /\ ~last_update_success[entities[i].entry]
        /\ ~available(entities[i])
        /\ last.op = "refresh"

\* C12: for an entity that was on the platform when a refresh notified it,
\* the handler wrote the state to the host exactly when no max GPS accuracy
\* is configured or the accuracy of the record it just resolved is at most
\* the threshold (equal is accepted); when the accuracy is strictly greater
\* the handler skipped the write.
C12_WriteIffWithinAccuracy ==
    \A i \in DOMAIN entities :
        LET ent == entities[i]
            max_gps_acc == options[ent.entry].max_gps_accuracy
            members == data[ent.entry].members
        IN  (/\ last.op = "refresh"
             /\ ent.entry = last.entry
             /\ i <= Len(entities) - Len(last.created))
            => /\ max_gps_acc = None => ent.update = "written"
               /\ (max_gps_acc # None /\ ent.unique_id \in DOMAIN members)
                  => /\ ent.update = "written" <=>
                          members[ent.unique_id].gps_accuracy <= max_gps_acc
                     /\ ent.update = "skipped" <=>
                          members[ent.unique_id].gps_accuracy > max_gps_acc

\* A refresh with the threshold configured that delivered a record whose
\* accuracy equals the threshold, and the handler wrote the state.
C12_Witness ==
    \E i \in DOMAIN entities :
        /\ last.op = "refresh"
        /\ entities[i].entry = last.entry
        /\ i <= Len(entities) - Len(last.created)
        /\ options[entities[i].entry].max_gps_accuracy = 50
        /\ entities[i]._data # NoData
        /\ entities[i]._data.gps_accuracy = 50
        /\ entities[i].update = "written"

\* How many lines of the given kind the list l holds for id.
LinesOf(l, kind, id) ==
    Cardinality({i \in DOMAIN l : l[i].kind = kind /\ l[i].id = id})

\* The list l holds no id twice.
NoDuplicates(l) == \A i, j \in DOMAIN l : l[i] = l[j] => i = j

\* C13: within one setup, a pass logs the inclusion decision of a member
\* id exactly when the id is in the members mapping and no earlier pass of
\* the setup logged it, and then marks it logged for good; so each member
\* id is logged at most once, at the first pass that sees it, and a later
\* change of its decision logs nothing. The same holds of each circle id
\* and of each place id: a circle's places line is logged exactly when the
\* circle has a place that neither an earlier pass nor an earlier circle
\* of this pass logged.
C13_LoggedAtMostOnce ==
    [][IF IsPass(last'.op)
       THEN LET e == last'.entry
                snap == data'[e]
                places == UNION {snap.circles[c].places :
                                   c \in DOMAIN snap.circles}
            IN  /\ \A m \in Members :
                     LinesOf(log', "member", m) =
                       IF /\ m \in DOMAIN snap.members
                          /\ m \notin Range(logged_members[e])
                       THEN 1 ELSE 0
                /\ Range(logged_members'[e]) =
                     Range(logged_members[e]) \cup DOMAIN snap.members
                /\ NoDuplicates(logged_members'[e])
                /\ \A c \in Circles :
                     /\ LinesOf(log', "circle", c) =
                          IF /\ c \in DOMAIN snap.circles
                             /\ c \notin Range(logged_circles[e])
                          THEN 1 ELSE 0
                     /\ LinesOf(log', "places", c) =
                          IF /\ c \in DOMAIN snap.circles
                             /\ snap.circles[c].places
                                  \ (Range(logged_places[e]) \cup
                                     UNION {snap.circles[b].places :
                                       b \in {x \in DOMAIN snap.circles :
                                                x < c}}) # {}
                          THEN 1 ELSE 0
                /\ Range(logged_circles'[e]) =
                     Range(logged_circles[e]) \cup DOMAIN snap.circles
                /\ NoDuplicates(logged_circles'[e])
                /\ Range(logged_places'[e]) =
                     Range(logged_places[e]) \cup places
                /\ NoDuplicates(logged_places'[e])
                /\ \A o \in Entries \ {e} :
                     /\ logged_members'[o] = logged_members[o]
                     /\ logged_circles'[o] = logged_circles[o]
                     /\ logged_places'[o] = logged_places[o]
       ELSE UNCHANGED <<logged_members, logged_circles, logged_places>>]_vars

\* A pass created the entity of a member (its decision is now "tracked")
\* and logged no line for it: the member was logged by an earlier pass,
\* when it was not tracked or before its entity was torn down.
C13_Witness ==
    /\ IsPass(last.op)
    /\ \E m \in Range(last.created) :
         /\ LinesOf(log, "member", m) = 0
         /\ m \in Range(logged_members[last.entry])

\* C14: a pass removes no id from the registry and tears down no entity:
\* the registry after it is the registry before it followed by the ids of
\* the entities the pass handed to the host, the entities already on the
\* platform stay, in place, and the new ones follow them. A step that takes
\* an id out of the registry is a teardown.
C14_PassOnlyAdds ==
    [][/\ IsPass(last'.op) =>
            /\ tracked_members' = tracked_members \o last'.created
            /\ Len(entities') = Len(entities) + Len(last'.created)
            /\ \A i \in DOMAIN entities :
                 /\ entities'[i].unique_id = entities[i].unique_id
                 /\ entities'[i].entry = entities[i].entry
            /\ \A k \in DOMAIN last'.created :
                 /\ entities'[Len(entities) + k].unique_id = last'.created[k]
                 /\ entities'[Len(entities) + k].entry = last'.entry
       /\ (\E m \in Members :
             Count(tracked_members', m) < Count(tracked_members, m))
          => last'.op = "teardown"]_vars

\* A pass of one account handed an entity to the host while the registry
\* already held the id of an entity of the other account.
C14_Witness ==
    /\ IsPass(last.op)
    /\ last.created # <<>>
    /\ Len(tracked_members) > Len(last.created)
    /\ \E i \in DOMAIN entities : entities[i].entry # last.entry

C16_RegistryIdsHaveEntities ==
    IsPass(last.op) =>
        \A m \in Range(tracked_members) : EntitiesOf(m) # {}

\* C17: with a driving-speed threshold configured, extra_state_attributes
\* of an entity whose slice is present returns a mapping (it does not
\* raise), also when the slice's speed or driving value is None; the
\* mapping's keys are among the eight extra attributes and none of its
\* values is None.
C17_AttributesTotal ==
    \A i \in DOMAIN entities :
        (/\ entities[i]._data # NoData
         /\ options[entities[i].entry].driving_speed # None)
        => LET r == extra_state_attributes(entities[i])
           IN  /\ r.exc = "none"
               /\ DOMAIN r.val \subseteq _EXTRA_ATTRIBUTES
               /\ \A k \in DOMAIN r.val : r.val[k] # None

\* C18: an entity's unique id and name are those its constructor set and no
\* update, written or skipped, and no read changes them; entity_picture
\* returns the current slice's picture while the entity is available and
\* the cached picture while it is not, and the cached picture changes only
\* by a read made while the entity is available, to the picture of the
\* slice it then has.
C18_IdentityAndPictureFrame ==
    [][/\ \A i \in DOMAIN entities' :
            (/\ entity_picture(entities[i]).exc = "none"
             /\ entity_picture(entities[i]).val =
                  IF available(entities[i])
                  THEN entities[i]._data["entity_picture"]
                  ELSE entities[i]._attr_entity_picture)'
       /\ Len(entities') > Len(entities)
          => \A k \in DOMAIN last'.created :
               LET ent == entities'[Len(entities) + k]
                   member == data'[last'.entry].members[ent.unique_id]
               IN  /\ ent.unique_id = last'.created[k]
                   /\ ent._attr_name = member["name"]
                   /\ ent._attr_entity_picture = member["entity_picture"]
       /\ \A i \in DOMAIN entities :
            Len(entities') >= Len(entities)
            => /\ entities'[i].unique_id = entities[i].unique_id
               /\ entities'[i]._attr_name = entities[i]._attr_name
               /\ entities'[i]._attr_entity_picture
                    # entities[i]._attr_entity_picture
                  => /\ available(entities[i])
                     /\ entities'[i]._attr_entity_picture =
                          entities[i]._data["entity_picture"]]_vars

\* An entity whose last update was skipped at the gate and whose
\* coordinator is unavailable: its slice carries another name and another
\* picture than the entity, which returns the picture it cached.
C18_Witness ==
    \E i \in DOMAIN entities :
        /\ ~available(entities[i])
        /\ entities[i].update = "skipped"
        /\ entities[i]._data # NoData
        /\ entities[i]._data["name"] # entities[i]._attr_name
        /\ entities[i]._data["entity_picture"]
             # entities[i]._attr_entity_picture
        /\ entity_picture(entities[i]).val = entities[i]._attr_entity_picture

====
